---- MODULE Spec2Model ----
(***************************************************************************)
(* Model of the cu_mpc component: the MPCController sample-rate gate and   *)
(* the GenericMPCTask adapter built around it                              *)
(* (components/tasks/cu_mpc/src/lib.rs).                                   *)
(*                                                                         *)
(* Conventions.  f64 values are modelled by integers, CuDuration by a      *)
(* natural number of time units.  Option<T> is a sequence of length at     *)
(* most one: <<>> is None and <<x>> is Some(x).  [f64; N] is a function    *)
(* over 1..N.                                                              *)
(***************************************************************************)
EXTENDS Integers, Sequences, FiniteSets, TLC

\* ---------------------------------------------------------------- bounds
N == 2              \* const generic N of MPCController<N>
MaxMeas == 1        \* measurement components range over 0..MaxMeas
MaxPeriod == 3      \* sample_period ranges over 0..MaxPeriod
MaxDt == 2          \* dt of one call ranges over 0..MaxDt
MaxByte == 1        \* bytes of a payload handed to thaw range over 0..MaxByte

\* ------------------------------------------------------- program constants
MaxIterations == 20 \* iteration cap handed to PANOCCache::new

\* ------------------------------------------------------------ input sets
Axes == 1..N
Measurements == [Axes -> 0..MaxMeas]
Dts == 0..MaxDt
SamplePeriods == 0..MaxPeriod
Setpoints == {[i \in Axes |-> 1], [i \in Axes |-> i]}
Limits == [i \in Axes |-> <<0 - 1, 1>>]
Tolerance == 1
CostOptions == {<<>>, <<"cost">>}

None == <<>>
Some(x) == <<x>>
ZeroVec == [i \in Axes |-> 0]

VARIABLES
    mpc,        \* the MPCController (GenericMPCTask.mpc)
    first_run,  \* GenericMPCTask.first_run
    output,     \* payload of the task's output message: Option<MPCControlOutputPayload>
    call,       \* the operation executed last, with its arguments
    ret,        \* Option: the payload returned by the last next_control_output
    result,     \* "Ok" / "Err" of the last CuResult / Result returning operation;
                \* "held" / "solved": the branch the last next_control_output took
    phase,      \* progress of a reset -> init_measurement -> ticks run that is
                \* compared with a fresh controller; "off": no comparison is kept
    fresh,      \* Option: a freshly constructed controller fed the same seed and ticks
    fresh_ret,  \* Option: what the fresh controller returned on the last tick
    frozen,     \* Option: bytes written by the last freeze
    snapshot,   \* Option: the task state that the last freeze was applied to
    thawed,     \* Option: a new task instance after thaw of the frozen bytes
    hist        \* what the calls made so far were (see NoHist); kept while phase # "off"

vars == <<mpc, first_run, output, call, ret, result, phase, fresh, fresh_ret,
          frozen, snapshot, thawed, hist>>

\* ------------------------------------------------------------ controller
MPCControlOutputPayload_default == [output |-> <<>>]

PANOCCache_new(n, tolerance, max_iterations) ==
    [n |-> n, tolerance |-> tolerance, max_iterations |-> max_iterations]

new(setpoint, output_limits, sample_period, state_cost, terminal_cost, tolerance) ==
    [ setpoint      |-> setpoint,
      output_limits |-> output_limits,
      sample_period |-> sample_period,
      state_cost    |-> state_cost,
      terminal_cost |-> terminal_cost,
      cache         |-> PANOCCache_new(N, tolerance, MaxIterations),
      elapsed       |-> 0,
      last_output   |-> MPCControlOutputPayload_default,
      last_error    |-> ZeroVec,
      tolerance     |-> tolerance ]

\* reset that builds the cache with another iteration cap than new does
reset_other_cap(c) ==
    [c EXCEPT !.cache = PANOCCache_new(N, c.tolerance, MaxIterations \div 2),
              !.last_error = ZeroVec]

\* reset that also clears the accumulator and the stored output
reset_full(c) ==
    [c EXCEPT !.cache = PANOCCache_new(N, c.tolerance, MaxIterations),
              !.last_error = ZeroVec,
              !.elapsed = 0,
              !.last_output = MPCControlOutputPayload_default]

\* reset that reinitializes the cache only
reset_keeps_error(c) ==
    [c EXCEPT !.cache = PANOCCache_new(N, c.tolerance, MaxIterations)]

reset(c) ==
    [c EXCEPT !.cache = PANOCCache_new(N, c.tolerance, MaxIterations),
              !.last_error = ZeroVec]

\* update_error with the operands of the subtraction exchanged
update_error_flipped(c, measurement) ==
    [c EXCEPT !.last_error = [i \in Axes |-> measurement[i] - c.setpoint[i]]]

update_error(c, measurement) ==
    [c EXCEPT !.last_error = [i \in Axes |-> c.setpoint[i] - measurement[i]]]

\* init_measurement that does not pre-load the accumulator
init_measurement_noforce(c, measurement) ==
    update_error(c, measurement)

init_measurement(c, measurement) ==
    [update_error(c, measurement) EXCEPT !.elapsed = c.sample_period]

\* next_control_output that refreshes the error before it consults the gate
next_control_output_eager(c, measurement, dt) ==
    LET c1 == update_error([c EXCEPT !.elapsed = c.elapsed + dt], measurement) IN
    IF c1.elapsed < c1.sample_period
    THEN [self |-> c1, ret |-> c1.last_output, solved |-> FALSE]
    ELSE LET out == [output |-> <<>>]
         IN [self |-> [c1 EXCEPT !.last_output = out, !.elapsed = 0],
             ret  |-> out, solved |-> TRUE]

\* next_control_output whose gate compares with <= instead of <
next_control_output_le(c, measurement, dt) ==
    LET c1 == [c EXCEPT !.elapsed = c.elapsed + dt] IN
    IF c1.elapsed <= c1.sample_period
    THEN [self |-> c1, ret |-> c1.last_output, solved |-> FALSE]
    ELSE LET c2 == update_error(c1, measurement)
             out == [output |-> <<>>]
         IN [self |-> [c2 EXCEPT !.last_output = out, !.elapsed = 0],
             ret  |-> out, solved |-> TRUE]

\* next_control_output that overwrites the accumulator with dt
next_control_output_assign(c, measurement, dt) ==
    LET c1 == [c EXCEPT !.elapsed = dt] IN
    IF c1.elapsed < c1.sample_period
    THEN [self |-> c1, ret |-> c1.last_output, solved |-> FALSE]
    ELSE LET c2 == update_error(c1, measurement)
             out == [output |-> <<>>]
         IN [self |-> [c2 EXCEPT !.last_output = out, !.elapsed = 0],
             ret  |-> out, solved |-> TRUE]

\* next_control_output that keeps the accumulator after a solve
next_control_output_noreset(c, measurement, dt) ==
    LET c1 == [c EXCEPT !.elapsed = c.elapsed + dt] IN
    IF c1.elapsed < c1.sample_period
    THEN [self |-> c1, ret |-> c1.last_output, solved |-> FALSE]
    ELSE LET c2 == update_error(c1, measurement)
             out == [output |-> <<>>]
         IN [self |-> [c2 EXCEPT !.last_output = out],
             ret  |-> out, solved |-> TRUE]

\* next_control_output whose gate compares this call's dt, not the accumulator
next_control_output_dt_only(c, measurement, dt) ==
    LET c1 == [c EXCEPT !.elapsed = c.elapsed + dt] IN
    IF dt < c1.sample_period
    THEN [self |-> c1, ret |-> c1.last_output, solved |-> FALSE]
    ELSE LET c2 == update_error(c1, measurement)
             out == [output |-> <<>>]
         IN [self |-> [c2 EXCEPT !.last_output = out, !.elapsed = 0],
             ret  |-> out, solved |-> TRUE]

\* returns the controller after the call, the returned payload, and whether the
\* call went past the gate to the MPC calculation
next_control_output(c, measurement, dt) ==
    LET c1 == [c EXCEPT !.elapsed = c.elapsed + dt] IN
    IF c1.elapsed < c1.sample_period
    THEN [self |-> c1, ret |-> c1.last_output, solved |-> FALSE]
    ELSE LET c2 == update_error(c1, measurement)
             out == [output |-> <<>>]
         IN [self |-> [c2 EXCEPT !.last_output = out, !.elapsed = 0],
             ret  |-> out, solved |-> TRUE]

\* ------------------------------------------------------------------ task
\* the payloads of the input type I, each convertible to [f64; N]
Payloads == [vals : Measurements]
Inputs == {None} \cup {Some(p) : p \in Payloads}

\* process that runs the gate on a zero measurement when no payload is present
process_gate_on_none(t, input, out) ==
    IF input # None
    THEN [self |-> t, output |-> None, result |-> "Ok"]
    ELSE LET r == next_control_output(t.mpc, ZeroVec, 1)
         IN [self |-> [t EXCEPT !.mpc = r.self], output |-> Some(r.ret), result |-> "Ok"]

\* t is [mpc, first_run]; out is the payload of the output message
process(t, input, out) ==
    IF input # None
    THEN [self |-> t, output |-> None, result |-> "Ok"]
    ELSE [self |-> t, output |-> None, result |-> "Ok"]

stop(t) ==
    [self |-> [mpc |-> reset(t.mpc), first_run |-> TRUE], result |-> "Ok"]

freeze(t) == [bytes |-> <<>>, result |-> "Ok"]

thaw(t, bytes) == [self |-> t, result |-> "Ok"]

\* byte strings that freeze does not produce for any task
CorruptPayloads == {<<b>> : b \in 0..MaxByte}

Task == [mpc |-> mpc, first_run |-> first_run]
\* the record kept in call: the operation, its arguments, and the operation before it
Call(op, m, dt) == [op |-> op, m |-> m, dt |-> dt, prev |-> call.op]
NoCall == [op |-> "new", m |-> <<>>, dt |-> 0, prev |-> "new"]

\* ------------------------------------------------------------------ Init
NewController(sps, sets, costs) ==
    \E sp \in sps, s \in sets, sc \in costs, tc \in costs :
        mpc = new(s, Limits, sp, sc, tc, Tolerance)

\* since:  sum of the dt passed to next_control_output since the last solve
\* seeded: init_measurement was called since the last next_control_output
\* holds:  number of calls held since the last solve, while all their dt > 0
\* min_dt: the smallest dt of the calls held since the last solve (NoDt: none)
\* last_m: Option, the measurement of the last init_measurement or solving call
\* reset_since: reset was called since that last update
NoDt == MaxDt + 1
NoHist == [since |-> 0, seeded |-> FALSE, holds |-> 0, min_dt |-> NoDt,
           last_m |-> None, reset_since |-> FALSE]

HistReset == IF phase = "off" THEN hist ELSE [hist EXCEPT !.reset_since = TRUE]

HistSeed(m) ==
    IF phase = "off" THEN hist
    ELSE [hist EXCEPT !.seeded = TRUE, !.last_m = Some(m), !.reset_since = FALSE]

HistTick(m, dt, solved) ==
    IF phase = "off" THEN hist
    ELSE IF solved
    THEN [since |-> 0, seeded |-> FALSE, holds |-> 0, min_dt |-> NoDt,
          last_m |-> Some(m), reset_since |-> FALSE]
    ELSE LET d == IF dt < hist.min_dt THEN dt ELSE hist.min_dt IN
         [hist EXCEPT !.since = hist.since + dt,
                      !.seeded = FALSE,
                      !.min_dt = d,
                      !.holds = IF d = 0 THEN 0 ELSE hist.holds + 1]

NoHistory ==
    /\ call = NoCall
    /\ hist = NoHist
    /\ ret = None
    /\ result = "none"
    /\ fresh = None
    /\ fresh_ret = None
    /\ frozen = None
    /\ snapshot = None
    /\ thawed = None

\* a controller constructed by MPCController::new from any configuration
Init ==
    /\ NewController(SamplePeriods, Setpoints, CostOptions)
    /\ first_run = TRUE
    /\ output = None
    /\ phase = "none"
    /\ NoHistory

\* a task instance around a controller constructed with both cost functions
InitTask ==
    /\ NewController(SamplePeriods, {[i \in Axes |-> i]}, {Some("cost")})
    /\ first_run \in BOOLEAN
    /\ output \in {None, Some(MPCControlOutputPayload_default)}
    /\ phase = "off"
    /\ NoHistory

\* a task instance that is check-pointed (freeze) and restored (thaw)
InitFreeze ==
    /\ NewController({MaxPeriod}, {[i \in Axes |-> i]}, {Some("cost")})
    /\ first_run = TRUE
    /\ output = None
    /\ phase = "off"
    /\ NoHistory

\* --------------------------------------------------------------- actions
Reset ==
    /\ mpc' = reset(mpc)
    /\ call' = Call("reset", <<>>, 0)
    /\ ret' = None
    /\ result' = "none"
    /\ phase' = IF phase = "off" THEN "off" ELSE "reset"
    /\ fresh' = None
    /\ fresh_ret' = None
    /\ hist' = HistReset
    /\ UNCHANGED <<first_run, output, frozen, snapshot, thawed>>

InitMeasurement ==
    \E m \in Measurements :
        /\ mpc' = init_measurement(mpc, m)
        /\ call' = Call("init_measurement", m, 0)
        /\ ret' = None
        /\ result' = "none"
        /\ IF phase = "reset"
           THEN /\ phase' = "seeded"
                /\ fresh' = Some(init_measurement(
                              new(mpc.setpoint, mpc.output_limits, mpc.sample_period,
                                  mpc.state_cost, mpc.terminal_cost, mpc.tolerance), m))
           ELSE /\ phase' = IF phase = "off" THEN "off" ELSE "none"
                /\ fresh' = None
        /\ fresh_ret' = None
        /\ hist' = HistSeed(m)
        /\ UNCHANGED <<first_run, output, frozen, snapshot, thawed>>

NextControlOutput ==
    \E m \in Measurements, dt \in Dts :
        LET r == next_control_output(mpc, m, dt) IN
        /\ mpc' = r.self
        /\ ret' = Some(r.ret)
        /\ call' = Call("next_control_output", m, dt)
        /\ result' = IF r.solved THEN "solved" ELSE "held"
        /\ hist' = HistTick(m, dt, r.solved)
        /\ IF phase \in {"seeded", "ticking"}
           THEN LET f == next_control_output(fresh[1], m, dt) IN
                /\ phase' = "ticking"
                /\ fresh' = Some(f.self)
                /\ fresh_ret' = Some(f.ret)
           ELSE /\ phase' = IF phase = "off" THEN "off" ELSE "none"
                /\ fresh' = None
                /\ fresh_ret' = None
        /\ UNCHANGED <<first_run, output, frozen, snapshot, thawed>>

Process ==
    \E input \in Inputs :
        LET r == process(Task, input, output) IN
        /\ mpc' = r.self.mpc
        /\ first_run' = r.self.first_run
        /\ output' = r.output
        /\ result' = r.result
        /\ call' = Call("process", input, 0)
        /\ ret' = None
        /\ UNCHANGED <<phase, fresh, fresh_ret, frozen, snapshot, thawed, hist>>

Stop ==
    LET r == stop(Task) IN
    /\ mpc' = r.self.mpc
    /\ first_run' = r.self.first_run
    /\ result' = r.result
    /\ call' = Call("stop", <<>>, 0)
    /\ ret' = None
    /\ phase' = IF phase = "off" THEN "off" ELSE "reset"
    /\ fresh' = None
    /\ fresh_ret' = None
    /\ hist' = HistReset
    /\ UNCHANGED <<output, frozen, snapshot, thawed>>

Freeze ==
    LET r == freeze(Task) IN
    /\ frozen' = Some(r.bytes)
    /\ snapshot' = Some(Task)
    /\ thawed' = None
    /\ result' = r.result
    /\ call' = Call("freeze", <<>>, 0)
    /\ ret' = None
    /\ UNCHANGED <<mpc, first_run, output, phase, fresh, fresh_ret, hist>>

\* thaw into a new instance built from the same static configuration
Thaw ==
    /\ frozen # None
    /\ LET inst == [mpc |-> new(mpc.setpoint, mpc.output_limits, mpc.sample_period,
                                mpc.state_cost, mpc.terminal_cost, mpc.tolerance),
                    first_run |-> TRUE]
           r == thaw(inst, frozen[1])
       IN /\ thawed' = Some(r.self)
          /\ result' = r.result
    /\ call' = Call("thaw", <<>>, 0)
    /\ ret' = None
    /\ UNCHANGED <<mpc, first_run, output, phase, fresh, fresh_ret, frozen, snapshot, hist>>

\* thaw of the task from a payload that no freeze has written
ThawPayload ==
    \E bytes \in CorruptPayloads :
        LET r == thaw(Task, bytes) IN
        /\ mpc' = r.self.mpc
        /\ first_run' = r.self.first_run
        /\ result' = r.result
        /\ call' = Call("thaw", bytes, 0)
        /\ ret' = None
        /\ UNCHANGED <<output, phase, fresh, fresh_ret, frozen, snapshot, thawed, hist>>

Next ==
    \/ Reset
    \/ InitMeasurement
    \/ NextControlOutput

Spec == Init /\ [][Next]_vars

NextTask ==
    \/ InitMeasurement
    \/ NextControlOutput
    \/ Process
    \/ Stop

SpecTask == InitTask /\ [][NextTask]_vars

NextFreeze ==
    \/ InitMeasurement
    \/ NextControlOutput
    \/ Stop
    \/ Freeze
    \/ Thaw
    \/ ThawPayload

SpecFreeze == InitFreeze /\ [][NextFreeze]_vars

\* ================================================================ claims
SetpointMinus(m) == [i \in Axes |-> mpc.setpoint[i] - m[i]]
IsTick == call.op = "next_control_output"
\* the persisted part of a controller
Persisted(c) == [cache |-> c.cache, last_error |-> c.last_error,
                 elapsed |-> c.elapsed, last_output |-> c.last_output]

\* C1: a next_control_output(m, dt) call with elapsed + dt < sample_period
\* returns the stored last_output and changes nothing but elapsed, which
\* grows by dt.
C1_ZeroOrderHold ==
    [][ (call'.op = "next_control_output"
          /\ mpc.elapsed + call'.dt < mpc.sample_period)
        => /\ ret' = Some(mpc.last_output)
           /\ mpc' = [mpc EXCEPT !.elapsed = mpc.elapsed + call'.dt] ]_vars

\* a hold directly after a seeded first solve, with a measurement that would
\* have changed the error
C1_Witness ==
    /\ IsTick
    /\ call.dt > 0
    /\ mpc.elapsed = call.dt
    /\ mpc.elapsed < mpc.sample_period
    /\ ret = Some(mpc.last_output)
    /\ mpc.last_error # SetpointMinus(call.m)
    /\ mpc.last_error # ZeroVec

\* C2: a next_control_output(m, dt) call with elapsed + dt >= sample_period
\* sets last_error to setpoint - m on every axis, stores the computed output
\* as last_output, returns that value and leaves elapsed at zero.
C2_DueTick ==
    [][ (call'.op = "next_control_output"
          /\ mpc.elapsed + call'.dt >= mpc.sample_period)
        => /\ \A i \in Axes : mpc'.last_error[i] = mpc.setpoint[i] - call'.m[i]
           /\ ret' = Some(mpc'.last_output)
           /\ mpc'.elapsed = 0 ]_vars

\* a solve reached by accumulating dt over a hold, on a measurement off the setpoint
C2_Witness ==
    /\ IsTick
    /\ call.prev = "next_control_output"
    /\ call.dt > 0
    /\ call.dt < mpc.sample_period
    /\ mpc.elapsed = 0
    /\ mpc.last_error = SetpointMinus(call.m)
    /\ mpc.last_error # ZeroVec
    /\ ret = Some(mpc.last_output)

\* C4: the output of a call that ran the solve has exactly N elements.
C4_SolveOutputHasN ==
    [][ (call'.op = "next_control_output"
          /\ mpc.elapsed + call'.dt >= mpc.sample_period)
        => Len(ret'[1].output) = N ]_vars

\* C5: init_measurement(m0) leaves last_error = setpoint - m0 and
\* elapsed >= sample_period, and the next_control_output call that follows it
\* solves for every dt (0 included): it refreshes the error from its own
\* measurement, returns the stored new output and ends with elapsed = 0.
C5_SeedForcesSolve ==
    [][ /\ (call'.op = "init_measurement"
             => /\ mpc'.last_error = [i \in Axes |-> mpc.setpoint[i] - call'.m[i]]
                /\ mpc'.elapsed >= mpc'.sample_period)
        /\ ((call.op = "init_measurement" /\ call'.op = "next_control_output")
             => /\ mpc'.elapsed = 0
                /\ mpc'.last_error = [i \in Axes |-> mpc.setpoint[i] - call'.m[i]]
                /\ ret' = Some(mpc'.last_output)) ]_vars

\* the call after a seed was made with dt = 0 under a positive sample_period
C5_Witness ==
    /\ IsTick
    /\ call.prev = "init_measurement"
    /\ call.dt = 0
    /\ mpc.sample_period > 0
    /\ mpc.elapsed = 0
    /\ mpc.last_error = SetpointMinus(call.m)

\* C6: once reset and init_measurement(m0) have been applied, every tick
\* returns what a freshly constructed controller with the same configuration,
\* seed and ticks returns, and leaves the controller in the state of that
\* fresh controller.
C6_ResetSeedLikeFresh ==
    phase = "ticking" => /\ ret = fresh_ret
                         /\ mpc = fresh[1]

\* the reset was applied to a controller with a sub-period accumulator, and a
\* tick after the seed's solve was held
C6_Witness ==
    /\ phase = "ticking"
    /\ IsTick
    /\ call.prev = "next_control_output"
    /\ mpc.elapsed > 0
    /\ ret = fresh_ret
    /\ mpc.last_error # ZeroVec

\* C7: after freeze and thaw into a new instance with the same static
\* configuration, the new instance holds the cache, last_error, elapsed and
\* last_output of the frozen task.
C7_ThawRestores ==
    thawed # None => Persisted(thawed[1].mpc) = Persisted(snapshot[1].mpc)

\* C8: no controller exists that was constructed with neither a state cost
\* nor a terminal cost.
C8_NoCostsRejected ==
    ~(mpc.state_cost = None /\ mpc.terminal_cost = None)

\* C9: after process with a measurement present, the emitted payload is the
\* value the gate returned, which is the controller's last_output.
C9_ProcessEmitsGateOutput ==
    (call.op = "process" /\ call.m # None) => output = Some(mpc.last_output)

\* C10: process with no measurement present clears the output payload,
\* returns Ok and leaves the controller and first_run unchanged.
C10_ProcessNoneFrame ==
    [][ (call'.op = "process" /\ call'.m = None)
        => /\ output' = None
           /\ result' = "Ok"
           /\ mpc' = mpc
           /\ first_run' = first_run ]_vars

\* process without a measurement on a task whose controller is mid-period
C10_Witness ==
    /\ call.op = "process"
    /\ call.m = None
    /\ output = None
    /\ result = "Ok"
    /\ mpc.elapsed > 0
    /\ mpc.last_error # ZeroVec
    /\ ~first_run

\* C11: the process call with a measurement that follows stop seeds last_error
\* from that measurement, runs a solve (elapsed ends at zero) and clears
\* first_run.
C11_ProcessAfterStopSeeds ==
    (call.op = "process" /\ call.prev = "stop" /\ call.m # None)
        => /\ ~first_run
           /\ mpc.last_error = SetpointMinus(call.m[1].vals)
           /\ mpc.elapsed = 0

\* C12: thaw of a payload that is not the encoding of any persisted state
\* returns an error.
C12_ThawCorruptFails ==
    (call.op = "thaw" /\ call.m # freeze(Task).bytes) => result = "Err"

\* C14: a next_control_output call that does not directly follow an
\* init_measurement runs the solve exactly when the dt passed since the last
\* solve, this call's dt included, sum to at least sample_period.
C14_SolveTiming ==
    [][ (call'.op = "next_control_output" /\ ~hist.seeded)
        => (result' = "solved" <=> hist.since + call'.dt >= mpc.sample_period) ]_vars

\* a solve that no single dt but only the sum over several calls made due
C14_Witness ==
    /\ IsTick
    /\ result = "solved"
    /\ call.prev = "next_control_output"
    /\ call.dt > 0
    /\ call.dt < mpc.sample_period
    /\ hist.since = 0

\* C15 as stated: last_error is setpoint - m for the measurement m of the most
\* recent init_measurement or solving call, in every state reached after one.
C15_ErrorTracksLastUpdate ==
    hist.last_m # None => mpc.last_error = SetpointMinus(hist.last_m[1])

\* C15 amended: last_error is setpoint - m for the measurement m of the most
\* recent init_measurement or solving call unless reset was called since;
\* after a reset, and before any update, it is the zero vector.  Held calls
\* change neither.
C15_ErrorTracksUpdateOrReset ==
    IF hist.last_m # None /\ ~hist.reset_since
    THEN mpc.last_error = SetpointMinus(hist.last_m[1])
    ELSE mpc.last_error = ZeroVec

\* a held call with another measurement than the one of the last update
C15_Witness ==
    /\ IsTick
    /\ result = "held"
    /\ hist.last_m # None
    /\ ~hist.reset_since
    /\ call.m # hist.last_m[1]
    /\ mpc.last_error = SetpointMinus(hist.last_m[1])
    /\ mpc.last_error # ZeroVec

\* C16: reset leaves the cache equal to the one new builds (dimension N, the
\* controller's tolerance, 20 iterations) and last_error zero, and a reset that
\* follows a reset changes nothing.
C16_ResetToDefaults ==
    [][ call'.op = "reset"
        => /\ mpc'.cache = [n |-> N, tolerance |-> mpc.tolerance, max_iterations |-> 20]
           /\ mpc'.cache = new(mpc.setpoint, mpc.output_limits, mpc.sample_period,
                               mpc.state_cost, mpc.terminal_cost, mpc.tolerance).cache
           /\ mpc'.last_error = ZeroVec
           /\ (call.op = "reset" => mpc' = mpc) ]_vars

\* two resets in a row on a controller whose error was not zero
C16_Witness ==
    /\ call.op = "reset"
    /\ call.prev = "reset"
    /\ hist.last_m # None
    /\ SetpointMinus(hist.last_m[1]) # ZeroVec
    /\ mpc.last_error = ZeroVec
    /\ mpc.elapsed > 0

CeilDiv(a, b) == (a + b - 1) \div b

\* C17: while every dt since the last solve (or construction) is at least
\* d > 0, fewer than ceil(sample_period / d) calls in a row are held, so a
\* solve comes within ceil(sample_period / d) calls.
C17_BoundedHold ==
    hist.holds > 0 => hist.holds + 1 <= CeilDiv(mpc.sample_period, hist.min_dt)

\* as many calls held as the bound allows
C17_Witness ==
    /\ IsTick
    /\ result = "held"
    /\ hist.holds >= 2
    /\ hist.holds + 1 = CeilDiv(mpc.sample_period, hist.min_dt)

ElapsedBelowPeriodUnlessSeeded ==
    mpc.sample_period > 0
        => \/ mpc.elapsed < mpc.sample_period
           \/ hist.seeded /\ mpc.elapsed = mpc.sample_period

\* C18: with sample_period > 0, elapsed < sample_period at construction and
\* after every next_control_output; elapsed >= sample_period only between an
\* init_measurement and the next call, where it is sample_period exactly, and
\* init_measurement never lowers elapsed.
C18_ElapsedRange ==
    /\ ElapsedBelowPeriodUnlessSeeded
    /\ [][ /\ ElapsedBelowPeriodUnlessSeeded'
           /\ (call'.op = "next_control_output" /\ mpc.sample_period > 0)
                => mpc'.elapsed < mpc.sample_period
           /\ call'.op = "init_measurement" => mpc'.elapsed >= mpc.elapsed ]_vars

\* a seeded controller, still at sample_period after a reset
C18_Witness ==
    /\ call.op = "reset"
    /\ call.prev = "init_measurement"
    /\ hist.seeded
    /\ mpc.sample_period > 0
    /\ mpc.elapsed = mpc.sample_period

\* C19: reset changes nothing but cache and last_error, and a call that
\* follows it with elapsed + dt < sample_period is held and returns the
\* output stored before the reset.
C19_ResetFrame ==
    [][ /\ call'.op = "reset"
             => mpc' = [mpc EXCEPT !.cache = mpc'.cache, !.last_error = mpc'.last_error]
        /\ (call.op = "reset" /\ call'.op = "next_control_output"
              /\ mpc.elapsed + call'.dt < mpc.sample_period)
             => /\ result' = "held"
                /\ ret' = Some(mpc.last_output)
                /\ mpc'.last_output = mpc.last_output ]_vars

\* a call held right after a reset of a controller that had solved before
C19_Witness ==
    /\ IsTick
    /\ call.prev = "reset"
    /\ result = "held"
    /\ mpc.elapsed > 0
    /\ hist.last_m # None
    /\ hist.reset_since
    /\ ret = Some(mpc.last_output)

====
